---- MODULE Spec2Model ----
(***************************************************************************)
(* State-machine model of sigma::Encryptor (encryptor.cu): the three       *)
(* constructors, encrypt_zero_internal, encrypt_internal,                  *)
(* sample_symmetric_ckks_c1_internal and encrypt_symmetric_ckks_internal.  *)
(*                                                                         *)
(* Polynomials are flat arrays of residues, one block of coeff_count       *)
(* coefficients per modulus, addressed as the code addresses them          *)
(* (base + i * coeff_count).  The context chain, the Ciphertext class, the *)
(* util:: and kernel_util:: routines live outside encryptor.cu; they are   *)
(* modelled from their documented contracts.                               *)
(***************************************************************************)
EXTENDS Integers, Sequences, FiniteSets, TLC

VARIABLES
    context_,           \* SIGMAContext: scheme, chain length, plain modulus
    constructed,        \* which constructor built the encryptor ("none" before)
    public_key_,        \* TRUE when a valid public key is set
    secret_key_,        \* TRUE when a valid secret key is set
    random_generator_,  \* "null" or "prepared"
    destination,        \* the caller's destination ciphertext
    before,             \* the destination as it was passed to the last call
    c1,                 \* the caller's mask ciphertext of the fast path
    last,               \* log of the last call: operation, arguments, outcome
    lift                \* scratch state of the BGV upper-half lift comparison

vars == <<context_, constructed, public_key_, secret_key_, random_generator_,
          destination, before, c1, last, lift>>

-----------------------------------------------------------------------------
(* Bounds of the model *)

\* largest number of moduli of the key level
MaxMods == 3
\* random seeds and plaintext contents are drawn from 0..MaxSeed
MaxSeed == 1

Seeds == 0..MaxSeed
Scales == {1, 2}
Schemes == {"bfv", "ckks", "bgv", "none"}

-----------------------------------------------------------------------------
(* Ring parameters and the context chain (consumed interface) *)

\* poly_modulus_degree
coeff_count == 2

\* the coefficient moduli q_i, primes with q_i = 1 (mod 2 * coeff_count)
coeff_modulus == <<5, 13, 17, 29, 37>>

\* primitive 2*coeff_count-th roots of unity psi_i modulo q_i (psi_i^2 = -1)
root == <<2, 5, 4, 12, 6>>

\* the level identifier that resolves to no level
parms_id_zero == -1

key_parms_id == 0

\* the first (data) level: the key level with its last modulus dropped when
\* there is more than one modulus
first_parms_id(ctx) == IF ctx.key_mods > 1 THEN 1 ELSE 0

\* get_context_data(parms_id) # nullptr
get_context_data(ctx, parms_id) == parms_id \in 0..(ctx.key_mods - 1)

\* parms.coeff_modulus().size() of a level: each level drops one modulus
coeff_modulus_size(ctx, parms_id) == ctx.key_mods - parms_id

\* prev_context_data(): the coarser predecessor, parms_id_zero when none
prev_context_data(ctx, parms_id) == IF parms_id > 0 THEN parms_id - 1 ELSE parms_id_zero

RECURSIVE Product(_)
\* total_coeff_modulus of a level with k moduli
Product(k) == IF k = 0 THEN 1 ELSE coeff_modulus[k] * Product(k - 1)

\* plain_upper_half_threshold = (plain_modulus + 1) >> 1
plain_upper_half_threshold(t) == (t + 1) \div 2

\* qualifiers().using_fast_plain_lift: every modulus exceeds the plain modulus
using_fast_plain_lift(k, t) == \A i \in 1..k : coeff_modulus[i] > t

\* plain_upper_half_increment in its full-precision form: Q - t
plain_upper_half_increment_full(k, t) == Product(k) - t

\* plain_upper_half_increment in its per-residue form: q_i - t
plain_upper_half_increment_rns(k, t) == [i \in 1..k |-> coeff_modulus[i] - t]

Mod(x, q) == ((x % q) + q) % q

-----------------------------------------------------------------------------
(* Ciphertext (consumed interface) *)

EmptyCiphertext ==
    [size |-> 0, parms_id |-> parms_id_zero, coeff_modulus_size |-> 0,
     is_ntt_form |-> FALSE, scale |-> 1, correction_factor |-> 1, data |-> <<>>]

\* a buffer resized to n words keeps its leading words; new words are zero
ResizeData(data, n) == [x \in 1..n |-> IF x <= Len(data) THEN data[x] ELSE 0]

\* Ciphertext::resize(context, parms_id, size)
resize(ct, ctx, parms_id, size) ==
    [ct EXCEPT !.parms_id = parms_id,
               !.size = size,
               !.coeff_modulus_size = coeff_modulus_size(ctx, parms_id),
               !.data = ResizeData(ct.data,
                                   size * coeff_modulus_size(ctx, parms_id) * coeff_count)]

\* residue index (1-based) and modulus of the word at flat position x of a
\* polynomial array holding k residues per component
ResidueOf(x, k) == (((x - 1) \div coeff_count) % k) + 1

\* the output of a random source seeded with r: size components of k residues
RandomData(r, size, k) ==
    [x \in 1..(size * k * coeff_count) |->
        Mod(3 * r + 2 * x + 1, coeff_modulus[ResidueOf(x, k)])]

-----------------------------------------------------------------------------
(* util::encrypt_zero_asymmetric / util::encrypt_zero_symmetric (rlwe.h) *)

\* a fresh 2-component encryption of zero at parms_id, drawn with seed r
encrypt_zero_asymmetric(ctx, parms_id, is_ntt_form, dest, r) ==
    [resize(dest, ctx, parms_id, 2) EXCEPT
        !.is_ntt_form = is_ntt_form, !.scale = 1, !.correction_factor = 1,
        !.data = RandomData(r, 2, coeff_modulus_size(ctx, parms_id))]

\* the same with the secret key; with save_seed the second component holds
\* the seed in place of the expanded polynomial
encrypt_zero_symmetric(ctx, parms_id, is_ntt_form, save_seed, dest, r) ==
    LET k == coeff_modulus_size(ctx, parms_id)
        full == RandomData(r + 1, 2, k)
    IN [resize(dest, ctx, parms_id, 2) EXCEPT
        !.is_ntt_form = is_ntt_form, !.scale = 1, !.correction_factor = 1,
        !.data = [x \in 1..(2 * k * coeff_count) |->
                    IF save_seed /\ x > k * coeff_count THEN r ELSE full[x]]]

-----------------------------------------------------------------------------
(* Encryptor::encrypt_zero_internal *)

Throw(dest, msg) ==
    [status |-> "error", err |-> msg, dest |-> dest, rescales |-> <<>>,
     generated_at |-> parms_id_zero, key |-> "none"]

Return(dest, rescales, generated_at, key) ==
    [status |-> "ok", err |-> "", dest |-> dest, rescales |-> rescales,
     generated_at |-> generated_at, key |-> key]

\* is_ntt_form of the zero encryption, "unsupported" for any other scheme
ZeroNttFormMutant(scheme) ==
    IF scheme = "ckks" THEN "true"
    ELSE IF scheme \in {"bfv", "bgv"} THEN "false"
    ELSE "unsupported"

ZeroNttForm(scheme) ==
    IF scheme = "ckks" \/ scheme = "bgv" THEN "true"
    ELSE IF scheme # "bfv" THEN "unsupported"
    ELSE "false"

\* the scheme check followed by destination.resize(context_, parms_id, 2)
ZeroCheckAndResizeMutant(ctx, parms_id, dest) ==
    IF ZeroNttForm(ctx.scheme) = "unsupported"
    THEN [err |-> "unsupported scheme", dest |-> resize(dest, ctx, parms_id, 2)]
    ELSE [err |-> "", dest |-> resize(dest, ctx, parms_id, 2)]

ZeroCheckAndResize(ctx, parms_id, dest) ==
    IF ZeroNttForm(ctx.scheme) = "unsupported"
    THEN [err |-> "unsupported scheme", dest |-> dest]
    ELSE [err |-> "", dest |-> resize(dest, ctx, parms_id, 2)]

\* the rescale routine of rns_tool the modulus-switching loop calls
RescaleKind(scheme) ==
    IF scheme = "ckks" THEN "divide_and_round_q_last_ntt_inplace"
    ELSE IF scheme = "bfv" THEN "divide_and_round_q_last_inplace"
    ELSE IF scheme = "bgv" THEN "mod_t_and_divide_q_last_ntt_inplace"
    ELSE "none"

\* whether encrypt_zero_internal generates at the predecessor and switches down
RequiresModSwitchMutant(ctx, parms_id, is_asymmetric) ==
    prev_context_data(ctx, parms_id) # parms_id_zero

RequiresModSwitch(ctx, parms_id, is_asymmetric) ==
    is_asymmetric /\ prev_context_data(ctx, parms_id) # parms_id_zero

\* SIGMA_ITERATE(iter(temp, destination), temp.size(), ...): one rescale call
\* per component of temp, with the predecessor's helper and tables, followed
\* by set_poly into the matching component of destination
ModSwitchCalls(ctx, prev, temp) ==
    [I \in 1..temp.size |->
        [component |-> I,
         kind |-> RescaleKind(ctx.scheme),
         helper |-> prev,
         tables |-> IF ctx.scheme = "bfv" THEN parms_id_zero ELSE prev]]

\* the residues set_poly copies into destination: what the rescale helper
\* left in the leading coeff_modulus_size residues of each component of temp
\* (the last residue taken out of the others; the helper's constant factor
\* and rounding correction are not modelled)
ModSwitchData(ctx, parms_id, temp) ==
    LET k == coeff_modulus_size(ctx, parms_id)
        kp == temp.coeff_modulus_size
    IN [x \in 1..(temp.size * k * coeff_count) |->
          LET comp == (x - 1) \div (k * coeff_count)
              off == ((x - 1) % (k * coeff_count)) + 1
              src == temp.data[comp * kp * coeff_count + off]
              lst == temp.data[comp * kp * coeff_count + (kp - 1) * coeff_count
                               + ((off - 1) % coeff_count) + 1]
          IN Mod(src - lst, coeff_modulus[ResidueOf(x, k)])]

encrypt_zero_internal(ctx, parms_id, is_asymmetric, save_seed, dest, pool, r) ==
    IF ~pool THEN Throw(dest, "pool is uninitialized")
    ELSE IF ~get_context_data(ctx, parms_id)
    THEN Throw(dest, "parms_id is not valid for encryption parameters")
    ELSE
    LET checked == ZeroCheckAndResize(ctx, parms_id, dest)
        is_ntt_form == (ZeroNttForm(ctx.scheme) = "true")
        prev == prev_context_data(ctx, parms_id)
    IN  IF checked.err # "" THEN Throw(checked.dest, checked.err)
        ELSE IF RequiresModSwitch(ctx, parms_id, is_asymmetric)
        THEN LET temp == encrypt_zero_asymmetric(ctx, prev, is_ntt_form, EmptyCiphertext, r)
                 switched == [checked.dest EXCEPT
                                !.data = ModSwitchData(ctx, parms_id, temp),
                                !.parms_id = parms_id,
                                !.is_ntt_form = is_ntt_form,
                                !.scale = temp.scale,
                                !.correction_factor = temp.correction_factor]
             IN Return(switched, ModSwitchCalls(ctx, prev, temp), prev, "public")
        ELSE IF is_asymmetric
        THEN Return(encrypt_zero_asymmetric(ctx, parms_id, is_ntt_form, checked.dest, r),
                    <<>>, parms_id, "public")
        ELSE Return(encrypt_zero_symmetric(ctx, parms_id, is_ntt_form, save_seed,
                                           checked.dest, r),
                    <<>>, parms_id, "secret")

-----------------------------------------------------------------------------
(* Plaintexts and the polynomial primitives encrypt_internal consumes *)

\* the coefficients of a coefficient-form plaintext with contents s under
\* plain modulus t: plain.coeff_count() <= coeff_count values below t
PlainCoeffs(s, t) ==
    IF s % 3 = 0 THEN <<plain_upper_half_threshold(t), plain_upper_half_threshold(t) - 1>>
    ELSE IF s % 3 = 1 THEN <<t - 1>>
    ELSE <<0, t - 1>>

\* the residues of an evaluation-form plaintext with contents s at a level
\* with k moduli
PlainRns(s, k) ==
    [x \in 1..(k * coeff_count) |-> Mod(5 * s + x + 2, coeff_modulus[ResidueOf(x, k)])]

\* ntt_negacyclic_harvey over k residues: residue i is evaluated at the odd
\* powers of root[i] (for coeff_count = 2: a0 + psi*a1 and a0 - psi*a1)
ntt_negacyclic_harvey(buf, k) ==
    [x \in 1..(k * coeff_count) |->
        LET i == ResidueOf(x, k)
            a0 == buf[(i - 1) * coeff_count + 1]
            a1 == buf[(i - 1) * coeff_count + 2]
        IN IF (x - 1) % coeff_count = 0
           THEN Mod(a0 + root[i] * a1, coeff_modulus[i])
           ELSE Mod(a0 - root[i] * a1, coeff_modulus[i])]

\* add_poly_coeffmod over the k residues of the leading component
add_poly_coeffmod(data, operand, k) ==
    [x \in 1..Len(data) |->
        IF x <= k * coeff_count
        THEN Mod(data[x] + operand[x], coeff_modulus[ResidueOf(x, k)])
        ELSE data[x]]

\* multiply_add_plain_with_scaling_variant: round(m * Q / t) added into the
\* leading component, per residue
multiply_add_plain_with_scaling_variant(data, coeffs, k, t) ==
    [x \in 1..Len(data) |->
        LET j == ((x - 1) % coeff_count) + 1
            m == IF j <= Len(coeffs) THEN coeffs[j] ELSE 0
            scaled == m * (Product(k) \div t)
                      + ((m * (Product(k) % t) + plain_upper_half_threshold(t)) \div t)
        IN IF x <= k * coeff_count
           THEN Mod(data[x] + scaled, coeff_modulus[ResidueOf(x, k)])
           ELSE data[x]]

\* base_q()->decompose_array: full-precision values to residue layout
decompose_array(temp, k) ==
    [x \in 1..(k * coeff_count) |->
        Mod(temp[((x - 1) % coeff_count) + 1], coeff_modulus[ResidueOf(x, k)])]

-----------------------------------------------------------------------------
(* The BGV upper-half lift of encrypt_internal *)

\* plain_copy = plain; plain_copy.resize(coeff_count * coeff_modulus_size)
PlainCopy(coeffs, k) == ResizeData(coeffs, k * coeff_count)

\* the generic lift: full-precision add of the increment, then decompose
GenericLift(coeffs, k, t) ==
    LET temp == [j \in 1..coeff_count |->
                    IF j > Len(coeffs) THEN 0
                    ELSE IF coeffs[j] >= plain_upper_half_threshold(t)
                    THEN coeffs[j] + plain_upper_half_increment_full(k, t)
                    ELSE coeffs[j]]
    IN decompose_array(temp, k)

\* the order in which the fast lift visits the residues
LiftOrderMutant(k) == [n \in 1..k |-> n]

LiftOrder(k) == [n \in 1..k |-> k - n + 1]

\* one residue of the fast lift: every coefficient J of residue I is computed
\* from the word at position J of the buffer (residue 1, *plain_iter)
FastLiftResidue(buf, I, count, k, t) ==
    [x \in 1..Len(buf) |->
        IF ResidueOf(x, k) = I /\ ((x - 1) % coeff_count) + 1 <= count
        THEN LET v == buf[((x - 1) % coeff_count) + 1]
             IN IF v >= plain_upper_half_threshold(t)
                THEN v + plain_upper_half_increment_rns(k, t)[I]
                ELSE v
        ELSE buf[x]]

RECURSIVE FastLiftLoop(_, _, _, _, _, _)
FastLiftLoop(buf, order, n, count, k, t) ==
    IF n > Len(order) THEN buf
    ELSE FastLiftLoop(FastLiftResidue(buf, order[n], count, k, t), order, n + 1, count, k, t)

\* the fast lift over the zero-padded copy of the plaintext
FastLift(coeffs, k, t) ==
    FastLiftLoop(PlainCopy(coeffs, k), LiftOrder(k), 1, Len(coeffs), k, t)

\* the lift encrypt_internal applies, chosen by the context's qualifier
LiftedPlain(coeffs, k, t) ==
    IF ~using_fast_plain_lift(k, t) THEN GenericLift(coeffs, k, t)
    ELSE FastLift(coeffs, k, t)

-----------------------------------------------------------------------------
(* Encryptor::encrypt_internal *)

\* the representation each scheme demands of the plaintext
PlainFormErrorMutant(scheme, is_ntt_form) ==
    IF scheme = "bfv" /\ is_ntt_form THEN "plain cannot be in NTT form"
    ELSE IF scheme = "ckks" /\ ~is_ntt_form THEN "plain must be in NTT form"
    ELSE ""

PlainFormError(scheme, is_ntt_form) ==
    IF scheme = "bfv" /\ is_ntt_form THEN "plain cannot be in NTT form"
    ELSE IF scheme = "ckks" /\ ~is_ntt_form THEN "plain must be in NTT form"
    ELSE IF scheme = "bgv" /\ is_ntt_form THEN "plain cannot be in NTT form"
    ELSE ""

\* the level encrypt_internal asks encrypt_zero_internal for
EncryptLevelMutant(ctx, plain) == plain.parms_id

EncryptLevel(ctx, plain) ==
    IF ctx.scheme = "ckks" THEN plain.parms_id ELSE first_parms_id(ctx)

\* destination.scale() after the CKKS injection
CkksScaleMutant(zero, plain) == zero.scale

CkksScale(zero, plain) == plain.scale

encrypt_internal(ctx, pk, sk, plain, valid, is_asymmetric, save_seed, dest, pool, r) ==
    IF is_asymmetric /\ ~pk THEN Throw(dest, "public key is not set")
    ELSE IF ~is_asymmetric /\ ~sk THEN Throw(dest, "secret key is not set")
    ELSE IF ~valid THEN Throw(dest, "plain is not valid for encryption parameters")
    ELSE IF ctx.scheme \notin {"bfv", "ckks", "bgv"} THEN Throw(dest, "unsupported scheme")
    ELSE IF PlainFormError(ctx.scheme, plain.is_ntt_form) # ""
    THEN Throw(dest, PlainFormError(ctx.scheme, plain.is_ntt_form))
    ELSE IF ctx.scheme = "ckks" /\ ~get_context_data(ctx, plain.parms_id)
    THEN Throw(dest, "plain is not valid for encryption parameters")
    ELSE
    LET zero == encrypt_zero_internal(ctx, EncryptLevel(ctx, plain), is_asymmetric,
                                      save_seed, dest, pool, r)
        k == coeff_modulus_size(ctx, EncryptLevel(ctx, plain))
        t == ctx.plain_modulus
    IN  IF zero.status # "ok" THEN zero
        ELSE IF ctx.scheme = "bfv"
        THEN [zero EXCEPT !.dest.data =
                multiply_add_plain_with_scaling_variant(
                    zero.dest.data, PlainCoeffs(plain.seed, t), k, t)]
        ELSE IF ctx.scheme = "ckks"
        THEN [zero EXCEPT
                !.dest.data = add_poly_coeffmod(zero.dest.data, PlainRns(plain.seed, k), k),
                !.dest.scale = CkksScale(zero.dest, plain)]
        ELSE [zero EXCEPT !.dest.data =
                add_poly_coeffmod(
                    zero.dest.data,
                    ntt_negacyclic_harvey(LiftedPlain(PlainCoeffs(plain.seed, t), k, t), k),
                    k)]

-----------------------------------------------------------------------------
(* Encryptor::sample_symmetric_ckks_c1_internal *)

\* sample_poly_uniform seeded by r, written into a 1-component shell resized
\* at first_parms_id
sample_symmetric_ckks_c1_internal(ctx, dest, r) ==
    [resize(dest, ctx, first_parms_id(ctx), 1) EXCEPT
        !.is_ntt_form = TRUE, !.scale = 1, !.correction_factor = 1,
        !.data = RandomData(r, 1, coeff_modulus_size(ctx, first_parms_id(ctx)))]

-----------------------------------------------------------------------------
(* Encryptor::encrypt_symmetric_ckks_internal *)

\* secret_key_.data(): the secret key in evaluation form at the key level
SecretKeyData(ctx) ==
    [x \in 1..(ctx.key_mods * coeff_count) |->
        Mod(2 * x + 1, coeff_modulus[ResidueOf(x, ctx.key_mods)])]

\* kernel_util::sample_poly_cbd: small centred coefficients, the same
\* integer reduced under each of the k moduli
CbdCoeffs(s) ==
    IF s % 3 = 0 THEN <<1, -1>> ELSE IF s % 3 = 1 THEN <<0, 2>> ELSE <<-2, 1>>

sample_poly_cbd(s, k) ==
    [x \in 1..(k * coeff_count) |->
        Mod(CbdCoeffs(s)[((x - 1) % coeff_count) + 1], coeff_modulus[ResidueOf(x, k)])]

\* a read of device memory at word x of an array: past the end of the
\* allocation the word read is whatever lies there (garbage fixed by o)
DeviceRead(arr, x, o) == IF x <= Len(arr) THEN arr[x] ELSE o + 1

\* kernel_util::dyadic_product_coeffmod on one coefficient
dyadic_product_coeffmod(a, b, q) == Mod(a * b, q)

\* kernel_util::g_ntt_negacyclic_harvey on the block of residue i (0-based)
g_ntt_negacyclic_harvey(noise, i) ==
    LET a0 == noise[i * coeff_count + 1]
        a1 == noise[i * coeff_count + 2]
        q == coeff_modulus[i + 1]
    IN [x \in 1..Len(noise) |->
          IF x = i * coeff_count + 1 THEN Mod(a0 + root[i + 1] * a1, q)
          ELSE IF x = i * coeff_count + 2 THEN Mod(a0 - root[i + 1] * a1, q)
          ELSE noise[x]]

\* kernel_util::add_negate_add_poly_coeffmod on one coefficient:
\* noise + (-product) + plain
add_negate_add_poly_coeffmod(e, prod, m, q) == Mod(e - prod + m, q)

\* one pass of the loop over the residues, i 0-based: st = [c0, noise]
FastResidue(st, i, sk, mask, plain_data, o) ==
    LET q == coeff_modulus[i + 1]
        prod == [j \in 1..coeff_count |->
                    dyadic_product_coeffmod(sk[i * coeff_count + j],
                                            DeviceRead(mask, i * coeff_count + j, o), q)]
        noise == g_ntt_negacyclic_harvey(st.noise, i)
    IN [c0 |-> [x \in 1..Len(st.c0) |->
                  IF x > i * coeff_count /\ x <= (i + 1) * coeff_count
                  THEN add_negate_add_poly_coeffmod(
                           noise[x], prod[x - i * coeff_count], plain_data[x], q)
                  ELSE st.c0[x]],
        noise |-> noise]

RECURSIVE FastLoop(_, _, _, _, _, _, _)
FastLoop(st, i, k, sk, mask, plain_data, o) ==
    IF i >= k THEN st
    ELSE FastLoop(FastResidue(st, i, sk, mask, plain_data, o), i + 1, k,
                  sk, mask, plain_data, o)

\* destination.resize(context_, plain.parms_id(), 1) and the metadata writes
\* that follow it
FastShell(ctx, plain, dest) ==
    [resize(dest, ctx, plain.parms_id, 1) EXCEPT
        !.is_ntt_form = TRUE, !.scale = 1, !.correction_factor = 1]

\* destination.scale() at the end of the fast path
FastScale(shell, plain) == plain.scale

\* rg is the outcome of sampling with random_generator_: "sampled" when the
\* states were prepared; on a null generator the call either dies in the
\* sampler ("crash") or goes on with whatever it wrote ("garbage")
encrypt_symmetric_ckks_internal(ctx, sk, plain, dest, mask, s, o, rg) ==
    IF ~sk THEN Throw(dest, "secret key is not set")
    ELSE IF ~plain.is_ntt_form THEN Throw(dest, "plain must be in NTT form")
    ELSE IF ~get_context_data(ctx, plain.parms_id)
    THEN Throw(dest, "plain is not valid for encryption parameters")
    ELSE
    LET k == coeff_modulus_size(ctx, plain.parms_id)
        shell == FastShell(ctx, plain, dest)
        done == FastLoop([c0 |-> shell.data, noise |-> sample_poly_cbd(s, k)], 0, k,
                         SecretKeyData(ctx), mask.data, PlainRns(plain.seed, k), o)
    IN  IF rg = "crash"
        THEN [Return(shell, <<>>, plain.parms_id, "secret") EXCEPT !.status = "crash"]
        ELSE Return([shell EXCEPT !.data = done.c0, !.scale = FastScale(shell, plain)],
                    <<>>, plain.parms_id, "secret")

-----------------------------------------------------------------------------------------------------------------------------------------------------
(* The state machine *)

LevelIds(ctx) == {parms_id_zero} \cup (0..(ctx.key_mods - 1))

Plaintexts(ctx) ==
    [parms_id : LevelIds(ctx), is_ntt_form : BOOLEAN, scale : Scales, seed : Seeds]

\* the contexts: a one-modulus chain (the first level is the key level) and
\* chains of up to MaxMods moduli; plain_modulus only matters to BGV
Contexts ==
    {ctx \in [scheme : Schemes, key_mods : 1..MaxMods, plain_modulus : {3, 7},
              parameters_set : BOOLEAN] :
        /\ (ctx.scheme # "none" => ctx.parameters_set)
        /\ (ctx.scheme # "bgv" => ctx.plain_modulus = 3)
        /\ ctx.plain_modulus < Product(coeff_modulus_size(ctx, first_parms_id(ctx)))}

\* the ciphertexts a caller passes as destination: a fresh one, a
\* 1-component evaluation-form ciphertext of scale 2 at the first level, or
\* the 2-component result of an earlier encryptZero at the key level
Destinations(ctx) ==
    {EmptyCiphertext,
     [sample_symmetric_ckks_c1_internal(ctx, EmptyCiphertext, 0) EXCEPT !.scale = 2],
     encrypt_zero_asymmetric(ctx, key_parms_id, ZeroNttForm(ctx.scheme) = "true",
                             EmptyCiphertext, 0)}

NoCall ==
    [op |-> "none", status |-> "none", err |-> "", is_asymmetric |-> FALSE,
     parms_id |-> parms_id_zero, is_ntt_form |-> FALSE, scale |-> 0, seed |-> 0,
     noise |-> 0, rescales |-> <<>>, generated_at |-> parms_id_zero, key |-> "none"]

\* the log entry of a call; a failed call logs no contents
Log(op, res, is_asymmetric, parms_id, is_ntt_form, scale, seed, noise) ==
    [op |-> op, status |-> res.status, err |-> res.err,
     is_asymmetric |-> is_asymmetric, parms_id |-> parms_id,
     is_ntt_form |-> is_ntt_form,
     scale |-> IF res.status = "error" THEN 0 ELSE scale,
     seed |-> IF res.status = "error" THEN 0 ELSE seed,
     noise |-> IF res.status = "error" THEN 0 ELSE noise,
     rescales |-> res.rescales, generated_at |-> res.generated_at, key |-> res.key]

IdleLift == [t |-> 0, k |-> 0, coeffs |-> <<>>, generic_done |-> FALSE,
             fast_done |-> FALSE, generic |-> <<>>, fast |-> <<>>]

Init ==
    /\ context_ \in Contexts
    /\ constructed = "none"
    /\ public_key_ = FALSE
    /\ secret_key_ = FALSE
    /\ random_generator_ = "null"
    /\ destination = EmptyCiphertext
    /\ before = EmptyCiphertext
    /\ c1 = EmptyCiphertext
    /\ last = NoCall
    /\ lift = IdleLift

\* a constructor throws when the context's parameters are not set
ConstructorFails ==
    /\ constructed = "none"
    /\ ~context_.parameters_set
    /\ constructed' = "failed"
    /\ UNCHANGED <<context_, public_key_, secret_key_, random_generator_,
                   destination, before, c1, last, lift>>

\* Encryptor(context, public_key)
ConstructPublic ==
    /\ constructed = "none"
    /\ context_.parameters_set
    /\ constructed' = "public"
    /\ public_key_' = TRUE
    /\ UNCHANGED <<context_, secret_key_, random_generator_, destination, before,
                   c1, last, lift>>

\* Encryptor(context, secret_key)
ConstructSecret ==
    /\ constructed = "none"
    /\ context_.parameters_set
    /\ constructed' = "secret"
    /\ secret_key_' = TRUE
    /\ random_generator_' = "prepared"
    /\ UNCHANGED <<context_, public_key_, destination, before, c1, last, lift>>

\* Encryptor(context, public_key, secret_key)
ConstructBoth ==
    /\ constructed = "none"
    /\ context_.parameters_set
    /\ constructed' = "both"
    /\ public_key_' = TRUE
    /\ secret_key_' = TRUE
    /\ UNCHANGED <<context_, random_generator_, destination, before, c1, last, lift>>

\* the encryptor exists and the caller is about to make its next call; no
\* call reads the log of the call before it
Ready == constructed \in {"public", "secret", "both"} /\ last.op = "none"

\* encryptZero: encrypt_zero_internal is handed the key of the requested
\* kind unchecked; callers ask only for a kind whose key is set
EncryptZero ==
    /\ Ready
    /\ \E dest \in Destinations(context_), parms_id \in LevelIds(context_),
          is_asymmetric \in BOOLEAN, save_seed \in BOOLEAN, pool \in BOOLEAN,
          r \in Seeds :
          /\ (IF is_asymmetric THEN public_key_ ELSE secret_key_)
          /\ LET res == encrypt_zero_internal(context_, parms_id, is_asymmetric,
                                               save_seed, dest, pool, r)
             IN /\ before' = dest
                /\ destination' = res.dest
                /\ last' = Log("encryptZero", res, is_asymmetric, parms_id, FALSE, 0, 0, 0)
    /\ UNCHANGED <<context_, constructed, public_key_, secret_key_, random_generator_,
                   c1, lift>>

\* encrypt
Encrypt ==
    /\ Ready
    /\ \E dest \in Destinations(context_), plain \in Plaintexts(context_),
          valid \in BOOLEAN, is_asymmetric \in BOOLEAN, save_seed \in BOOLEAN,
          pool \in BOOLEAN, r \in Seeds :
          LET res == encrypt_internal(context_, public_key_, secret_key_, plain, valid,
                                      is_asymmetric, save_seed, dest, pool, r)
          IN /\ before' = dest
             /\ destination' = res.dest
             /\ last' = Log("encrypt", res, is_asymmetric, plain.parms_id,
                            plain.is_ntt_form, plain.scale, plain.seed, 0)
    /\ UNCHANGED <<context_, constructed, public_key_, secret_key_, random_generator_,
                   c1, lift>>

\* sampleSymmetricMask, into the caller's mask ciphertext
SampleSymmetricMask ==
    /\ Ready
    /\ \E r \in Seeds :
          /\ c1' = sample_symmetric_ckks_c1_internal(context_, c1, r)
          /\ last' = Log("sampleSymmetricMask",
                         Return(c1, <<>>, first_parms_id(context_), "none"),
                         FALSE, first_parms_id(context_), FALSE, 0, r, 0)
    /\ UNCHANGED <<context_, constructed, public_key_, secret_key_, random_generator_,
                   destination, before, lift>>

\* encryptSymmetricFast with the caller's mask ciphertext
EncryptSymmetricFast ==
    /\ Ready
    /\ \E dest \in Destinations(context_), plain \in Plaintexts(context_),
          s \in Seeds, o \in Seeds,
          rg \in (IF random_generator_ = "prepared" THEN {"sampled"}
                  ELSE {"crash", "garbage"}) :
          LET res == encrypt_symmetric_ckks_internal(context_, secret_key_, plain,
                                                     dest, c1, s, o, rg)
          IN /\ before' = dest
             /\ destination' = res.dest
             /\ last' = Log("encryptSymmetricFast", res, FALSE, plain.parms_id,
                            plain.is_ntt_form, plain.scale, plain.seed, s)
    /\ UNCHANGED <<context_, constructed, public_key_, secret_key_, random_generator_,
                   c1, lift>>

\* the caller takes the result of a call that returned or threw; a call
\* that brought the process down is the end
Collect ==
    /\ last.op # "none"
    /\ last.status # "crash"
    /\ last' = NoCall
    /\ destination' = EmptyCiphertext
    /\ before' = EmptyCiphertext
    /\ UNCHANGED <<context_, constructed, public_key_, secret_key_, random_generator_,
                   c1, lift>>

Next ==
    \/ ConstructorFails
    \/ ConstructPublic
    \/ ConstructSecret
    \/ ConstructBoth
    \/ EncryptZero
    \/ Encrypt
    \/ SampleSymmetricMask
    \/ EncryptSymmetricFast
    \/ Collect

Spec == Init /\ [][Next]_vars

-----------------------------------------------------------------------------
(* The two lift strategies of the BGV injection, side by side *)

\* plain moduli below every coefficient modulus: the fast lift applies
LiftModuli == {2, 3, 4}

\* every coefficient vector of 1..coeff_count values below t
CoeffVectors(t) ==
    UNION {[1..n -> 0..(t - 1)] : n \in 1..coeff_count}

InitLift ==
    /\ context_ \in {ctx \in [scheme : {"bgv"}, key_mods : 1..MaxMods,
                               plain_modulus : LiftModuli, parameters_set : {TRUE}] :
                        using_fast_plain_lift(
                            coeff_modulus_size(ctx, first_parms_id(ctx)),
                            ctx.plain_modulus)}
    /\ constructed = "none"
    /\ public_key_ = FALSE
    /\ secret_key_ = FALSE
    /\ random_generator_ = "null"
    /\ destination = EmptyCiphertext
    /\ before = EmptyCiphertext
    /\ c1 = EmptyCiphertext
    /\ last = NoCall
    /\ lift \in {[IdleLift EXCEPT
                     !.t = context_.plain_modulus,
                     !.k = coeff_modulus_size(context_, first_parms_id(context_)),
                     !.coeffs = v] : v \in CoeffVectors(context_.plain_modulus)}

\* the branch taken when using_fast_plain_lift is false, on the same input
RunGenericLift ==
    /\ ~lift.generic_done
    /\ lift' = [lift EXCEPT !.generic_done = TRUE,
                            !.generic = GenericLift(lift.coeffs, lift.k, lift.t)]
    /\ UNCHANGED <<context_, constructed, public_key_, secret_key_, random_generator_,
                   destination, before, c1, last>>

\* the branch taken when using_fast_plain_lift is true
RunFastLift ==
    /\ ~lift.fast_done
    /\ lift' = [lift EXCEPT !.fast_done = TRUE,
                            !.fast = FastLift(lift.coeffs, lift.k, lift.t)]
    /\ UNCHANGED <<context_, constructed, public_key_, secret_key_, random_generator_,
                   destination, before, c1, last>>

NextLift == RunGenericLift \/ RunFastLift

SpecLift == InitLift /\ [][NextLift]_vars

-----------------------------------------------------------------------------
(* Properties *)

Failed(op) == last.op = op /\ last.status = "error"

Succeeded(op) == last.op = op /\ last.status = "ok"

\* C1: a call of encryptZero, encrypt or encryptSymmetricFast that fails
\* with an error leaves the destination exactly as it was passed in.
C1_FailedCallLeavesDestination ==
    (last.status = "error"
     /\ last.op \in {"encryptZero", "encrypt", "encryptSymmetricFast"})
        => destination = before

\* a stale ciphertext was passed to encrypt and the pool check of the nested
\* zero encryption, the last check of all, rejected the call
C1_Witness ==
    /\ Failed("encrypt")
    /\ last.err = "pool is uninitialized"
    /\ before.size = 1
    /\ destination = before

\* C2: encrypt rejects evaluation-form plaintexts under BFV and BGV and
\* coefficient-form plaintexts under CKKS, encryptSymmetricFast rejects
\* coefficient-form plaintexts, and the form errors are raised in no other case.
C2_FormRejection ==
    /\ (last.op = "encrypt" /\ context_.scheme \in {"bfv", "bgv"} /\ last.is_ntt_form)
          => last.status = "error"
    /\ (last.op = "encrypt" /\ context_.scheme = "ckks" /\ ~last.is_ntt_form)
          => last.status = "error"
    /\ (last.op = "encryptSymmetricFast" /\ ~last.is_ntt_form)
          => last.status = "error"
    /\ last.err = "plain cannot be in NTT form"
          => (last.op = "encrypt" /\ context_.scheme \in {"bfv", "bgv"}
              /\ last.is_ntt_form)
    /\ last.err = "plain must be in NTT form"
          => (~last.is_ntt_form
              /\ (last.op = "encryptSymmetricFast"
                  \/ (last.op = "encrypt" /\ context_.scheme = "ckks")))

C2_Witness ==
    /\ Failed("encrypt")
    /\ context_.scheme = "bgv"
    /\ last.is_ntt_form
    /\ last.err = "plain cannot be in NTT form"

\* C3: a successful encryptZero leaves 2 components at the requested level,
\* with that level's modulus count, in evaluation form exactly under CKKS
\* and BGV.
C3_ZeroShape ==
    Succeeded("encryptZero") =>
        /\ destination.size = 2
        /\ destination.parms_id = last.parms_id
        /\ destination.coeff_modulus_size = coeff_modulus_size(context_, last.parms_id)
        /\ Len(destination.data) = 2 * destination.coeff_modulus_size * coeff_count
        /\ destination.is_ntt_form = (context_.scheme \in {"ckks", "bgv"})

\* BGV, public key, a level with a predecessor, over a stale 1-component
\* destination of another level
C3_Witness ==
    /\ Succeeded("encryptZero")
    /\ context_.scheme = "bgv"
    /\ last.is_asymmetric
    /\ prev_context_data(context_, last.parms_id) # parms_id_zero
    /\ before.size = 1
    /\ before.parms_id # last.parms_id

\* C4 (as claimed): no symmetric zero encryption and no fast-path noise
\* sampling runs while the random states are unprepared.
C4_SymmetricNeedsPreparedStates ==
    (/\ last.status \in {"ok", "crash"}
     /\ \/ (last.op = "encryptZero" /\ ~last.is_asymmetric)
        \/ last.op = "encryptSymmetricFast")
        => random_generator_ = "prepared"

\* C5: under CKKS a successful encrypt or encryptSymmetricFast leaves the
\* plaintext's scale on the destination.
C5_ScalePropagates ==
    (context_.scheme = "ckks"
     /\ (Succeeded("encrypt") \/ Succeeded("encryptSymmetricFast")))
        => destination.scale = last.scale

\* a public-key encrypt that went through the rescale, with a scale other
\* than the one zero encryption leaves
C5_Witness ==
    /\ context_.scheme = "ckks"
    /\ Succeeded("encrypt")
    /\ last.is_asymmetric
    /\ Len(last.rescales) = 2
    /\ last.scale = 2
    /\ destination.scale = 2

\* the leading-component equation at word x of residue i
FastEquation(x, i) ==
    LET k == coeff_modulus_size(context_, last.parms_id)
        e == ntt_negacyclic_harvey(sample_poly_cbd(last.noise, k), k)
    IN destination.data[x] =
         Mod(e[x] + PlainRns(last.seed, k)[x] - SecretKeyData(context_)[x] * c1.data[x],
             coeff_modulus[i])

\* C6 (as claimed): after a successful encryptSymmetricFast with a sampled
\* mask, every residue i of the plaintext's level holds
\* -(secret * mask) + NTT(noise) + plaintext modulo q_i, mask residue i
\* being a residue of the mask.
C6_LeadingComponent ==
    (/\ context_.scheme = "ckks"
     /\ Succeeded("encryptSymmetricFast")
     /\ random_generator_ = "prepared"
     /\ c1.size = 1)
        => \A i \in 1..coeff_modulus_size(context_, last.parms_id) :
             \A j \in 1..coeff_count :
                /\ (i - 1) * coeff_count + j <= Len(c1.data)
                /\ FastEquation((i - 1) * coeff_count + j, i)

\* the same equation, for the plaintext levels the mask covers
C6_WithinMask ==
    (/\ Succeeded("encryptSymmetricFast")
     /\ random_generator_ = "prepared"
     /\ c1.size = 1
     /\ coeff_modulus_size(context_, last.parms_id) <= c1.coeff_modulus_size)
        => \A x \in 1..(coeff_modulus_size(context_, last.parms_id) * coeff_count) :
             FastEquation(x, ResidueOf(x, coeff_modulus_size(context_, last.parms_id)))

RescalesOf(component) ==
    {n \in 1..Len(last.rescales) : last.rescales[n].component = component}

\* C7: encryptZero rescales each of the two components exactly once, with
\* the scheme's routine and the predecessor's helper and tables, after
\* generating at the predecessor with the public key, when the mode is
\* asymmetric and the level has a predecessor; otherwise it rescales nothing
\* and generates at the target level with the key of the requested kind.
C7_RescaleCount ==
    Succeeded("encryptZero") =>
        IF last.is_asymmetric /\ prev_context_data(context_, last.parms_id) # parms_id_zero
        THEN /\ \A c \in 1..2 : Cardinality(RescalesOf(c)) = 1
             /\ Len(last.rescales) = 2
             /\ \A n \in 1..Len(last.rescales) :
                   /\ last.rescales[n].kind = RescaleKind(context_.scheme)
                   /\ last.rescales[n].helper = prev_context_data(context_, last.parms_id)
                   /\ (context_.scheme # "bfv" =>
                         last.rescales[n].tables
                           = prev_context_data(context_, last.parms_id))
             /\ last.generated_at = prev_context_data(context_, last.parms_id)
             /\ last.key = "public"
        ELSE /\ last.rescales = <<>>
             /\ last.generated_at = last.parms_id
             /\ last.key = (IF last.is_asymmetric THEN "public" ELSE "secret")

\* a public-key zero encryption under BFV at a level that has a predecessor:
\* one divide-and-round per component, generated one level up
C7_Witness ==
    /\ Succeeded("encryptZero")
    /\ context_.scheme = "bfv"
    /\ last.is_asymmetric
    /\ prev_context_data(context_, last.parms_id) # parms_id_zero
    /\ Len(last.rescales) = 2
    /\ last.generated_at = last.parms_id - 1

\* C8: encrypt produces its ciphertext at the first level under BFV and BGV
\* whatever level the plaintext names, and at the plaintext's level under
\* CKKS, where an unresolved level is an error.
C8_EncryptLevel ==
    /\ (Succeeded("encrypt") /\ context_.scheme \in {"bfv", "bgv"})
          => destination.parms_id = first_parms_id(context_)
    /\ (Succeeded("encrypt") /\ context_.scheme = "ckks")
          => destination.parms_id = last.parms_id
    /\ (last.op = "encrypt" /\ context_.scheme = "ckks"
        /\ ~get_context_data(context_, last.parms_id))
          => last.status = "error"

\* BGV, a plaintext that names the key level, a chain whose first level is
\* another one
C8_Witness ==
    /\ Succeeded("encrypt")
    /\ context_.scheme = "bgv"
    /\ last.parms_id = key_parms_id
    /\ first_parms_id(context_) # key_parms_id
    /\ destination.parms_id = first_parms_id(context_)

\* C9: on every coefficient vector below the plain modulus the generic lift
\* and the fast lift write the same residues, and both copy a coefficient
\* below the upper-half threshold unchanged into every residue.
C9_LiftsAgree ==
    (lift.generic_done /\ lift.fast_done) =>
        /\ lift.generic = lift.fast
        /\ \A i \in 1..lift.k : \A j \in 1..Len(lift.coeffs) :
              lift.coeffs[j] < plain_upper_half_threshold(lift.t) =>
                /\ lift.generic[(i - 1) * coeff_count + j] = lift.coeffs[j]
                /\ lift.fast[(i - 1) * coeff_count + j] = lift.coeffs[j]

\* two residues, a first coefficient at the threshold and a second below it
C9_Witness ==
    /\ lift.generic_done
    /\ lift.fast_done
    /\ lift.k >= 2
    /\ Len(lift.coeffs) = 2
    /\ lift.coeffs[1] = plain_upper_half_threshold(lift.t)
    /\ lift.coeffs[2] < plain_upper_half_threshold(lift.t)
    /\ lift.fast[coeff_count + 1] # lift.coeffs[1]

\* C10 (as claimed): after sampleSymmetricMask and a successful
\* encryptSymmetricFast of a plaintext at any data level of the chain (the
\* first level or one below it) the destination and the mask agree in
\* level, modulus count and evaluation-form flag.
C10_MaskMatchesLeading ==
    (/\ context_.scheme = "ckks"
     /\ Succeeded("encryptSymmetricFast")
     /\ c1.size = 1
     /\ last.parms_id >= first_parms_id(context_)) =>
        /\ destination.parms_id = c1.parms_id
        /\ destination.coeff_modulus_size = c1.coeff_modulus_size
        /\ destination.is_ntt_form = c1.is_ntt_form

====
